---------------------------- MODULE Spec2Model ----------------------------
(***************************************************************************)
(* Model of jenkins_jobs/modules/view_list.py: List.root_xml, the          *)
(* translation of one list-view configuration (a Python dict, as loaded    *)
(* from YAML) into an xml.etree.ElementTree element tree.                  *)
(*                                                                         *)
(* root_xml is a pure function of its argument.  The state machine draws   *)
(* one configuration `data` in Init and the single action Call applies     *)
(* root_xml to it, recording what the call hands back: the returned tree   *)
(* or the exception that left the function.                                *)
(***************************************************************************)
EXTENDS Integers, Sequences, FiniteSets, TLC

VARIABLES data, pc, result

vars == <<data, pc, result>>

(***************************************************************************)
(* Bounds of the input space.                                              *)
(***************************************************************************)
MaxJobNames == 3    \* longest job-name list
MaxColumns == 3     \* longest columns list
MaxFilters == 4     \* most keys in a job-filters dict
MaxBlockKeys == 2   \* most fields given in one filter block (data family)

(***************************************************************************)
(* Python values.  Every value carries its type, so that `is None`,        *)
(* truthiness and str() can be computed as Python computes them.           *)
(***************************************************************************)
None == [t |-> "none"]
PyStr(s) == [t |-> "str", s |-> s]
PyInt(n) == [t |-> "int", n |-> n]
PyBool(b) == [t |-> "bool", b |-> b]
PyList(items) == [t |-> "list", items |-> items]
\* A dict whose iteration order the code depends on: keys in iteration
\* order, items the mapping itself.
PyDict(keys, items) == [t |-> "dict", keys |-> keys, items |-> items]

\* dict.get(key, default) on a mapping.
Get(d, k, default) == IF k \in DOMAIN d THEN d[k] ELSE default

\* The sequence a `for x in v` loop walks through.
Iter(v) == IF v.t = "dict" THEN v.keys ELSE v.items

\* Python truthiness, as used by `'true' if x else 'false'`.
Truthy(v) ==
    CASE v.t = "bool" -> v.b
      [] v.t = "none" -> FALSE
      [] v.t = "str" -> v.s # ""
      [] v.t = "int" -> v.n # 0
      [] v.t = "list" -> v.items # <<>>
      [] v.t = "dict" -> v.keys # <<>>

Digit(d) == SubSeq("0123456789", d + 1, d + 1)

RECURSIVE NatToStr(_)
NatToStr(n) == IF n < 10 THEN Digit(n) ELSE NatToStr(n \div 10) \o Digit(n % 10)

\* Python's str() on a scalar.
str(v) ==
    CASE v.t = "str" -> v.s
      [] v.t = "int" -> IF v.n < 0 THEN "-" \o NatToStr(-v.n) ELSE NatToStr(v.n)
      [] v.t = "bool" -> IF v.b THEN "True" ELSE "False"
      [] v.t = "none" -> "None"

(***************************************************************************)
(* ElementTree elements.  `text` is None until assigned, as in             *)
(* xml.etree.ElementTree.                                                  *)
(***************************************************************************)
NoAttrib == <<>>
Element(tag, attrib) ==
    [tag |-> tag, attrib |-> attrib, text |-> None, children |-> <<>>]
WithText(e, text) == [e EXCEPT !.text = text]
\* XML.SubElement(parent, ...): the child is appended to parent's children.
SubElement(parent, child) == [parent EXCEPT !.children = Append(@, child)]

\* What a call hands back.
Return(e) == [kind |-> "return", root |-> e]
Raise(exc, arg) == [kind |-> "raise", exc |-> exc, arg |-> arg]
NoResult == [kind |-> "none"]
\* Sequencing of statements that may raise.
Bind(r, F(_)) == IF r.kind = "raise" THEN r ELSE F(r.root)

(***************************************************************************)
(* COLUMN_DICT                                                             *)
(***************************************************************************)
COLUMN_DICT ==
    ("status" :> "hudson.views.StatusColumn") @@
    ("weather" :> "hudson.views.WeatherColumn") @@
    ("job" :> "hudson.views.JobColumn") @@
    ("last-success" :> "hudson.views.LastSuccessColumn") @@
    ("last-failure" :> "hudson.views.LastFailureColumn") @@
    ("last-duration" :> "hudson.views.LastDurationColumn") @@
    ("build-button" :> "hudson.views.BuildButtonColumn") @@
    ("last-stable" :> "hudson.views.LastStableColumn")

(***************************************************************************)
(* convert_mapping_to_xml (jenkins_jobs.modules.helpers), which            *)
(* view_list.py calls but does not define: modelled from the               *)
(* specification's Field-Mapping Applier.                                  *)
(***************************************************************************)
\* The required-marker default.
Required == [t |-> "required"]

\* Booleans as lowercase "true"/"false", other scalars by their string form.
RenderText(v) ==
    IF v.t = "bool" THEN (IF v.b THEN "true" ELSE "false") ELSE str(v)

RECURSIVE convert_mapping_to_xml(_, _, _, _)
convert_mapping_to_xml(parent, mdata, mapping, fail_required) ==
    IF mapping = <<>> THEN Return(parent)
    ELSE LET key == Head(mapping)[1]
             tag == Head(mapping)[2]
             default == Head(mapping)[3]
             val == Get(mdata, key, default)
         IN  IF val.t = "required"
             THEN IF fail_required
                  THEN Raise("RequiredFieldError", key)
                  ELSE convert_mapping_to_xml(
                           SubElement(parent, Element(tag, NoAttrib)),
                           mdata, Tail(mapping), fail_required)
             ELSE convert_mapping_to_xml(
                      SubElement(parent,
                          WithText(Element(tag, NoAttrib), PyStr(RenderText(val)))),
                      mdata, Tail(mapping), fail_required)

(***************************************************************************)
(* The four filter schemas of root_xml: (config key, output tag, default). *)
(***************************************************************************)
\* Mutant: max-to-include made a required field.
MostRecentMapping_required ==
    << <<"max-to-include", "maxToInclude", Required>>,
       <<"check-start-time", "checkStartTime", PyBool(FALSE)>> >>

MostRecentMapping ==
    << <<"max-to-include", "maxToInclude", PyStr("0")>>,
       <<"check-start-time", "checkStartTime", PyBool(FALSE)>> >>

BuildDurationMapping ==
    << <<"match-type", "includeExcludeTypeString", PyStr("includeMatched")>>,
       <<"build-duration-type", "buildCountTypeString", PyStr("Latest")>>,
       <<"amount-type", "amountTypeString", PyStr("Hours")>>,
       <<"amount", "amount", PyStr("0")>>,
       <<"less-than", "lessThan", PyBool(TRUE)>>,
       <<"build-duration-minutes", "buildDurationMinutes", PyStr("0")>> >>

BuildTrendMapping ==
    << <<"match-type", "includeExcludeTypeString", PyStr("includeMatched")>>,
       <<"build-trend-type", "buildCountTypeString", PyStr("Latest")>>,
       <<"amount-type", "amountTypeString", PyStr("Hours")>>,
       <<"amount", "amount", PyStr("0")>>,
       <<"status", "statusTypeString", PyStr("Completed")>> >>

JobStatusMapping ==
    << <<"match-type", "includeExcludeTypeString", PyStr("includeMatched")>>,
       <<"unstable", "unstable", PyBool(FALSE)>>,
       <<"failed", "failed", PyBool(FALSE)>>,
       <<"aborted", "aborted", PyBool(FALSE)>>,
       <<"disabled", "disabled", PyBool(FALSE)>>,
       <<"stable", "stable", PyBool(FALSE)>> >>

PluginAttrib == ("plugin" :> "view-job-filters")

\* The fail_required argument root_xml passes for each filter type.
fail_required(f) == TRUE

(***************************************************************************)
(* The body of `for jobfilter in jobfilters`: four independent `if`s, each *)
(* creating the filter element under jobFilters and filling it through     *)
(* convert_mapping_to_xml with fail_required=True.  An exception leaves    *)
(* root_xml; otherwise the filter element is the new last child.           *)
(***************************************************************************)
MostRecentBranch(job_filter_xml, jobfilters, jobfilter) ==
    IF jobfilter = "most-recent"
    THEN Bind(convert_mapping_to_xml(
                  Element("hudson.views.MostRecentJobsFilter", PluginAttrib),
                  jobfilters.items["most-recent"], MostRecentMapping, fail_required("most-recent")),
              LAMBDA mr_xml : Return(SubElement(job_filter_xml, mr_xml)))
    ELSE Return(job_filter_xml)

BuildDurationBranch(job_filter_xml, jobfilters, jobfilter) ==
    IF jobfilter = "build-duration"
    THEN Bind(convert_mapping_to_xml(
                  Element("hudson.views.BuildDurationFilter", PluginAttrib),
                  jobfilters.items["build-duration"], BuildDurationMapping, fail_required("build-duration")),
              LAMBDA bd_xml : Return(SubElement(job_filter_xml, bd_xml)))
    ELSE Return(job_filter_xml)

\* Mutant: the build-trend branch copied from build-duration with its
\* schema left in place.
BuildTrendBranch_copied(job_filter_xml, jobfilters, jobfilter) ==
    IF jobfilter = "build-trend"
    THEN Bind(convert_mapping_to_xml(
                  Element("hudson.views.BuildTrendFilter", PluginAttrib),
                  jobfilters.items["build-trend"], BuildDurationMapping,
                  fail_required("build-trend")),
              LAMBDA bt_xml : Return(SubElement(job_filter_xml, bt_xml)))
    ELSE Return(job_filter_xml)

BuildTrendBranch(job_filter_xml, jobfilters, jobfilter) ==
    IF jobfilter = "build-trend"
    THEN Bind(convert_mapping_to_xml(
                  Element("hudson.views.BuildTrendFilter", PluginAttrib),
                  jobfilters.items["build-trend"], BuildTrendMapping, fail_required("build-trend")),
              LAMBDA bt_xml : Return(SubElement(job_filter_xml, bt_xml)))
    ELSE Return(job_filter_xml)

JobStatusBranch(job_filter_xml, jobfilters, jobfilter) ==
    IF jobfilter = "job-status"
    THEN Bind(convert_mapping_to_xml(
                  Element("hudson.views.JobStatusFilter", PluginAttrib),
                  jobfilters.items["job-status"], JobStatusMapping, fail_required("job-status")),
              LAMBDA js_xml : Return(SubElement(job_filter_xml, js_xml)))
    ELSE Return(job_filter_xml)

JobFilterBody(job_filter_xml, jobfilters, jobfilter) ==
    Bind(MostRecentBranch(job_filter_xml, jobfilters, jobfilter), LAMBDA x1 :
    Bind(BuildDurationBranch(x1, jobfilters, jobfilter), LAMBDA x2 :
    Bind(BuildTrendBranch(x2, jobfilters, jobfilter), LAMBDA x3 :
         JobStatusBranch(x3, jobfilters, jobfilter))))

\* The loop, over the keys of jobfilters in the dict's iteration order.
RECURSIVE JobFilterLoop(_, _, _)
JobFilterLoop(job_filter_xml, jobfilters, rest) ==
    IF rest = <<>> THEN Return(job_filter_xml)
    ELSE Bind(JobFilterBody(job_filter_xml, jobfilters, Head(rest)),
              LAMBDA x : JobFilterLoop(x, jobfilters, Tail(rest)))

(***************************************************************************)
(* The statements of root_xml, one operator per child of the root.  Each   *)
(* takes the root built so far and hands back the result of the statement. *)
(***************************************************************************)
\* Mutant: the name read through data.get('name'), which never raises.
NameStep_lenient(root, d) ==
    Return(SubElement(root,
        WithText(Element("name", NoAttrib), Get(d, "name", None))))

\* XML.SubElement(root, 'name').text = data['name']
NameStep(root, d) ==
    IF "name" \in DOMAIN d
    THEN Return(SubElement(root, WithText(Element("name", NoAttrib), d["name"])))
    ELSE Raise("KeyError", "name")

\* Mutant: `if desc_text:` in place of `if desc_text is not None:`.
DescriptionStep_truthy(root, d) ==
    LET desc_text == Get(d, "description", None)
    IN  IF Truthy(desc_text)
        THEN Return(SubElement(root,
                 WithText(Element("description", NoAttrib), desc_text)))
        ELSE Return(root)

DescriptionStep(root, d) ==
    LET desc_text == Get(d, "description", None)
    IN  IF desc_text.t # "none"
        THEN Return(SubElement(root,
                 WithText(Element("description", NoAttrib), desc_text)))
        ELSE Return(root)

FilterExecutorsStep(root, d) ==
    LET filterExecutors == Get(d, "filter-executors", PyBool(FALSE))
    IN  Return(SubElement(root, WithText(Element("filterExecutors", NoAttrib),
            PyStr(IF Truthy(filterExecutors) THEN "true" ELSE "false"))))

FilterQueueStep(root, d) ==
    LET filterQueue == Get(d, "filter-queue", PyBool(FALSE))
    IN  Return(SubElement(root, WithText(Element("filterQueue", NoAttrib),
            PyStr(IF Truthy(filterQueue) THEN "true" ELSE "false"))))

PropertiesStep(root, d) ==
    Return(SubElement(root,
        Element("properties", ("class" :> "hudson.model.View$PropertyList"))))

\* Mutant: the entry stored as it is, without str().
RECURSIVE JobNameLoop_raw(_, _)
JobNameLoop_raw(jn_xml, rest) ==
    IF rest = <<>> THEN jn_xml
    ELSE JobNameLoop_raw(
             SubElement(jn_xml, WithText(Element("string", NoAttrib), Head(rest))),
             Tail(rest))

\* for jobname in jobnames: XML.SubElement(jn_xml, 'string').text = str(jobname)
RECURSIVE JobNameLoop(_, _)
JobNameLoop(jn_xml, rest) ==
    IF rest = <<>> THEN jn_xml
    ELSE JobNameLoop(
             SubElement(jn_xml,
                 WithText(Element("string", NoAttrib), PyStr(str(Head(rest))))),
             Tail(rest))

JobNamesStep(root, d) ==
    LET jobnames == Get(d, "job-name", None)
        jn_xml == SubElement(Element("jobNames", NoAttrib),
                      Element("comparator",
                          ("class" :> "hudson.util.CaseInsensitiveComparator")))
    IN  Return(SubElement(root,
            IF jobnames.t # "none"
            THEN JobNameLoop(jn_xml, Iter(jobnames))
            ELSE jn_xml))

\* Mutant: the jobFilters shell built only when job-filters is configured.
JobFiltersStep_noShell(root, d) ==
    IF "job-filters" \notin DOMAIN d THEN Return(root)
    ELSE Bind(JobFilterLoop(Element("jobFilters", NoAttrib), d["job-filters"],
                  Iter(d["job-filters"])),
              LAMBDA job_filter_xml : Return(SubElement(root, job_filter_xml)))

JobFiltersStep(root, d) ==
    LET jobfilters == Get(d, "job-filters", PyList(<<>>))
    IN  Bind(JobFilterLoop(Element("jobFilters", NoAttrib), jobfilters,
                 Iter(jobfilters)),
             LAMBDA job_filter_xml : Return(SubElement(root, job_filter_xml)))

\* Mutant: an unrecognized column leaves an element named after it.
RECURSIVE ColumnLoop_keepUnknown(_, _)
ColumnLoop_keepUnknown(c_xml, rest) ==
    IF rest = <<>> THEN c_xml
    ELSE ColumnLoop_keepUnknown(
             SubElement(c_xml,
                 Element(Get(COLUMN_DICT, Head(rest).s, Head(rest).s), NoAttrib)),
             Tail(rest))

\* for column in columns: if column in COLUMN_DICT: SubElement(c_xml, ...)
RECURSIVE ColumnLoop(_, _)
ColumnLoop(c_xml, rest) ==
    IF rest = <<>> THEN c_xml
    ELSE ColumnLoop(
             IF Head(rest).t = "str" /\ Head(rest).s \in DOMAIN COLUMN_DICT
             THEN SubElement(c_xml, Element(COLUMN_DICT[Head(rest).s], NoAttrib))
             ELSE c_xml,
             Tail(rest))

ColumnsStep(root, d) ==
    LET columns == Get(d, "columns", PyList(<<>>))
    IN  Return(SubElement(root,
            ColumnLoop(Element("columns", NoAttrib), Iter(columns))))

IncludeRegexStep(root, d) ==
    LET regex == Get(d, "regex", None)
    IN  IF regex.t # "none"
        THEN Return(SubElement(root,
                 WithText(Element("includeRegex", NoAttrib), regex)))
        ELSE Return(root)

\* Mutant: the text taken from str(recurse), "True" or "False".
RecurseStep_str(root, d) ==
    LET recurse == Get(d, "recurse", PyBool(FALSE))
    IN  Return(SubElement(root,
            WithText(Element("recurse", NoAttrib), PyStr(str(recurse)))))

RecurseStep(root, d) ==
    LET recurse == Get(d, "recurse", PyBool(FALSE))
    IN  Return(SubElement(root, WithText(Element("recurse", NoAttrib),
            PyStr(IF Truthy(recurse) THEN "true" ELSE "false"))))

StatusFilterStep(root, d) ==
    LET statusfilter == Get(d, "status-filter", None)
    IN  IF statusfilter.t # "none"
        THEN Return(SubElement(root, WithText(Element("statusFilter", NoAttrib),
                 PyStr(IF Truthy(statusfilter) THEN "true" ELSE "false"))))
        ELSE Return(root)

\* Mutant: the regex statement placed after the recurse statement.
StatementOrder_regexLast ==
    <<"name", "description", "filterExecutors", "filterQueue", "properties",
      "jobNames", "jobFilters", "columns", "recurse", "includeRegex",
      "statusFilter">>

\* The order in which root_xml executes its statements.
StatementOrder ==
    <<"name", "description", "filterExecutors", "filterQueue", "properties",
      "jobNames", "jobFilters", "columns", "includeRegex", "recurse",
      "statusFilter">>

Step(stmt, root, d) ==
    CASE stmt = "name" -> NameStep(root, d)
      [] stmt = "description" -> DescriptionStep(root, d)
      [] stmt = "filterExecutors" -> FilterExecutorsStep(root, d)
      [] stmt = "filterQueue" -> FilterQueueStep(root, d)
      [] stmt = "properties" -> PropertiesStep(root, d)
      [] stmt = "jobNames" -> JobNamesStep(root, d)
      [] stmt = "jobFilters" -> JobFiltersStep(root, d)
      [] stmt = "columns" -> ColumnsStep(root, d)
      [] stmt = "includeRegex" -> IncludeRegexStep(root, d)
      [] stmt = "recurse" -> RecurseStep(root, d)
      [] stmt = "statusFilter" -> StatusFilterStep(root, d)

RECURSIVE RunStatements(_, _, _)
RunStatements(root, d, rest) ==
    IF rest = <<>> THEN Return(root)
    ELSE Bind(Step(Head(rest), root, d),
              LAMBDA r : RunStatements(r, d, Tail(rest)))

\* List.root_xml(data): the tree, or the exception that leaves the call.
root_xml(d) ==
    RunStatements(Element("hudson.model.ListView", NoAttrib), d, StatementOrder)

(***************************************************************************)
(* The configurations root_xml is applied to.  A configuration is a        *)
(* mapping from the keys present to their values; a key given without a    *)
(* value in the YAML source is present with value None.  The input space   *)
(* is the union of five families, each varying one part of the             *)
(* configuration exhaustively within the bounds over fixed backgrounds.    *)
(***************************************************************************)
Range(s) == {s[i] : i \in DOMAIN s}
SeqsUpTo(S, n) == UNION {[1..k -> S] : k \in 0..n}
\* A key that is absent, or present with one of the values Vs.
Opt(k, Vs) == {<<>>} \cup {k :> v : v \in Vs}

BoolValues == {None, PyBool(FALSE), PyBool(TRUE)}

FilterTypes == {"most-recent", "build-duration", "build-trend", "job-status"}
FilterKeys == FilterTypes \cup {"unknown-filter"}

Mapping(f) ==
    CASE f = "most-recent" -> MostRecentMapping
      [] f = "build-duration" -> BuildDurationMapping
      [] f = "build-trend" -> BuildTrendMapping
      [] f = "job-status" -> JobStatusMapping

\* One block with some fields given, per filter key.
SampleBlock(f) ==
    CASE f = "most-recent" -> ("max-to-include" :> PyInt(5))
      [] f = "build-duration" ->
             ("amount" :> PyInt(3)) @@ ("less-than" :> PyBool(FALSE))
      [] f = "build-trend" -> ("status" :> PyStr("Failed"))
      [] f = "job-status" ->
             ("match-type" :> PyStr("excludeMatched")) @@
             ("unstable" :> PyBool(TRUE))
      [] OTHER -> ("anything" :> PyInt(1))

\* Every scalar key absent or present, over two backgrounds of collections.
CollectionBackgrounds ==
    { <<>>,
      ("job-name" :> PyList(<<PyStr("a")>>)) @@
      ("job-filters" :> PyDict(<<"most-recent">>, ("most-recent" :> <<>>))) @@
      ("columns" :> PyList(<<PyStr("job")>>)) }

ScalarConfigs ==
    { bg @@ n @@ ds @@ fe @@ fq @@ rx @@ rc @@ sf :
        bg \in CollectionBackgrounds,
        n \in Opt("name", {PyStr("v1")}),
        ds \in Opt("description", {None, PyStr(""), PyStr("d")}),
        fe \in Opt("filter-executors", BoolValues),
        fq \in Opt("filter-queue", BoolValues),
        rx \in Opt("regex", {None, PyStr(".*")}),
        rc \in Opt("recurse", BoolValues),
        sf \in Opt("status-filter", BoolValues) }

\* The backgrounds of scalars for the families that vary a collection.
ScalarBackgrounds ==
    { ("name" :> PyStr("v1")),
      ("name" :> PyStr("v2")) @@ ("description" :> PyStr("d")) @@
      ("filter-executors" :> PyBool(TRUE)) @@ ("filter-queue" :> PyBool(FALSE)) @@
      ("regex" :> PyStr(".*")) @@ ("recurse" :> PyBool(TRUE)) @@
      ("status-filter" :> PyBool(FALSE)) }

JobNameEntries == {PyStr("a"), PyStr("b"), PyInt(7), PyInt(42)}

JobNameConfigs ==
    { bg @@ jn :
        bg \in ScalarBackgrounds,
        jn \in Opt("job-name",
                 {None} \cup {PyList(s) : s \in SeqsUpTo(JobNameEntries, MaxJobNames)}) }

ColumnEntries == {PyStr(c) : c \in DOMAIN COLUMN_DICT \cup {"bogus"}}

ColumnConfigs ==
    { bg @@ cs :
        bg \in ScalarBackgrounds,
        cs \in Opt("columns",
                 {PyList(s) : s \in SeqsUpTo(ColumnEntries, MaxColumns)}) }

\* job-filters dicts: every iteration order of up to MaxFilters distinct
\* keys, each block empty or the sample block.
Arrangements ==
    { s \in SeqsUpTo(FilterKeys, MaxFilters) :
        \A i, j \in DOMAIN s : s[i] = s[j] => i = j }

FilterOrderDicts ==
    UNION { { PyDict(s, [k \in Range(s) |->
                           IF k \in P THEN SampleBlock(k) ELSE <<>>]) :
              P \in SUBSET Range(s) } : s \in Arrangements }

FilterOrderConfigs ==
    { bg @@ ("job-filters" :> jf) :
        bg \in ScalarBackgrounds, jf \in FilterOrderDicts }

\* One filter block of a recognized type, with up to MaxBlockKeys fields
\* given (among them possibly a key its schema does not know).
FieldValues == {PyInt(5), PyBool(TRUE), PyBool(FALSE), PyStr("x")}
BlockKeys(f) == {Mapping(f)[i][1] : i \in DOMAIN Mapping(f)} \cup {"extra"}
Blocks(f) ==
    UNION { [S -> FieldValues] :
            S \in {T \in SUBSET BlockKeys(f) : Cardinality(T) <= MaxBlockKeys} }

FilterDataConfigs ==
    UNION { { ("name" :> PyStr("v2")) @@
              ("job-filters" :> PyDict(<<f>>, (f :> b))) : b \in Blocks(f) } :
            f \in FilterTypes }

Configs ==
    ScalarConfigs \cup JobNameConfigs \cup ColumnConfigs \cup
    FilterOrderConfigs \cup FilterDataConfigs

(***************************************************************************)
(* The state machine: one configuration, one call of root_xml.             *)
(***************************************************************************)
Init ==
    /\ data \in Configs
    /\ pc = "ready"
    /\ result = NoResult

Call ==
    /\ pc = "ready"
    /\ result' = root_xml(data)
    /\ pc' = "done"
    /\ UNCHANGED data

Next == Call

Spec == Init /\ [][Next]_vars

(***************************************************************************)
(* Vocabulary of the properties.                                           *)
(***************************************************************************)
Done == pc = "done"
Returned == pc = "done" /\ result.kind = "return"
Raised == pc = "done" /\ result.kind = "raise"
Has(k) == k \in DOMAIN data
\* The key is present with a value other than None.
Given(k) == k \in DOMAIN data /\ data[k].t # "none"

Tags(e) == [i \in DOMAIN e.children |-> e.children[i].tag]
ChildrenWithTag(e, tag) == SelectSeq(e.children, LAMBDA c : c.tag = tag)
HasChild(e, tag) == \E i \in DOMAIN e.children : e.children[i].tag = tag
OnlyChild(e, tag) == ChildrenWithTag(e, tag)[1]
ExactlyOne(e, tag) == Len(ChildrenWithTag(e, tag)) = 1
IsText(e, string) == e.text = PyStr(string)

\* The job-filters dict of the configuration (an empty one when absent).
ConfiguredFilters ==
    IF Has("job-filters") THEN data["job-filters"] ELSE PyDict(<<>>, <<>>)
FilterConfigured(f) == f \in Range(ConfiguredFilters.keys)

CanonicalFilterOrder ==
    <<"most-recent", "build-duration", "build-trend", "job-status">>

FilterElementTag(f) ==
    CASE f = "most-recent" -> "hudson.views.MostRecentJobsFilter"
      [] f = "build-duration" -> "hudson.views.BuildDurationFilter"
      [] f = "build-trend" -> "hudson.views.BuildTrendFilter"
      [] f = "job-status" -> "hudson.views.JobStatusFilter"

JobFiltersElement == OnlyChild(result.root, "jobFilters")

(***************************************************************************)
(* C1: the children of jobFilters appear in the fixed order most-recent,   *)
(* build-duration, build-trend, job-status, whatever the order of the keys *)
(* in the job-filters dict.  The loop of root_xml follows the dict's       *)
(* iteration order instead, so this statement is violated.                 *)
(***************************************************************************)
C1_CanonicalFilterOrder ==
    Returned =>
        Tags(JobFiltersElement) =
            [i \in DOMAIN SelectSeq(CanonicalFilterOrder, FilterConfigured) |->
                FilterElementTag(SelectSeq(CanonicalFilterOrder, FilterConfigured)[i])]

(***************************************************************************)
(* C2: without a name key root_xml raises (KeyError on 'name') and hands   *)
(* back no tree; the absence of any other top-level key raises nothing:    *)
(* with a name, root_xml returns a tree.                                   *)
(***************************************************************************)
C2_OnlyNameIsRequired ==
    Done =>
        /\ ~Has("name") => /\ result = Raise("KeyError", "name")
                           /\ "root" \notin DOMAIN result
        /\ Has("name") => result.kind = "return"

C2_Witness ==
    /\ Raised
    /\ ~Has("name")
    /\ Has("description") /\ Has("job-filters") /\ Has("columns")

(***************************************************************************)
(* Vocabulary of the filter properties.                                    *)
(***************************************************************************)
\* The text the applier is to give a scalar: booleans as "true"/"false",
\* strings as they are, the integers of the input space in decimal.
ExpectedText(v) ==
    CASE v.t = "bool" -> IF v.b THEN "true" ELSE "false"
      [] v.t = "str" -> v.s
      [] v.t = "int" /\ v.n = 0 -> "0"
      [] v.t = "int" /\ v.n = 1 -> "1"
      [] v.t = "int" /\ v.n = 3 -> "3"
      [] v.t = "int" /\ v.n = 5 -> "5"

FilterElement(f) == OnlyChild(JobFiltersElement, FilterElementTag(f))
Block(f) == ConfiguredFilters.items[f]
\* The i-th field of the schema of f is missing from the configured block.
MissingField(f, i) == Mapping(f)[i][1] \notin DOMAIN Block(f)
SomeFieldMissing(f) == \E i \in DOMAIN Mapping(f) : MissingField(f, i)

\* The filter element of f carries, for every triple of the schema and in
\* schema order, a child with the triple's tag, no attributes and the text
\* of the block's value, or of the triple's default when the key is missing.
FilterFollowsSchema(f) ==
    /\ ExactlyOne(JobFiltersElement, FilterElementTag(f))
    /\ Len(FilterElement(f).children) = Len(Mapping(f))
    /\ \A i \in DOMAIN Mapping(f) :
         LET child == FilterElement(f).children[i]
             key == Mapping(f)[i][1]
         IN  /\ child.tag = Mapping(f)[i][2]
             /\ child.attrib = NoAttrib
             /\ child.children = <<>>
             /\ child.text =
                    PyStr(ExpectedText(IF key \in DOMAIN Block(f)
                                       THEN Block(f)[key]
                                       ELSE Mapping(f)[i][3]))

RootChildOrder ==
    <<"name", "description", "filterExecutors", "filterQueue", "properties",
      "jobNames", "jobFilters", "columns", "includeRegex", "recurse",
      "statusFilter">>
UnconditionalChildren ==
    {"name", "filterExecutors", "filterQueue", "properties", "jobNames",
     "jobFilters", "columns", "recurse"}
Position(tag) == CHOOSE i \in DOMAIN RootChildOrder : RootChildOrder[i] = tag

C4_RootChildOrder ==
    Done /\ Has("name") =>
        /\ result.kind = "return"
        /\ result.root.tag = "hudson.model.ListView"
        /\ \A i \in DOMAIN result.root.children :
               result.root.children[i].tag \in Range(RootChildOrder)
        /\ \A i, j \in DOMAIN result.root.children :
               i < j => Position(result.root.children[i].tag)
                            < Position(result.root.children[j].tag)
        /\ \A tag \in UnconditionalChildren : ExactlyOne(result.root, tag)

C4_Witness ==
    /\ Returned
    /\ Tags(result.root) = RootChildOrder
    /\ Has("job-filters") /\ Has("columns") /\ Has("job-name")

(***************************************************************************)
(* C5 as claimed: each optional child is emitted exactly when its key is   *)
(* present in the configuration, whatever the value: description iff       *)
(* description is present, includeRegex iff regex, statusFilter iff        *)
(* status-filter.  root_xml tests the value against None, not the key's    *)
(* presence, so a key present with value None emits nothing and this       *)
(* statement is violated.                                                  *)
(***************************************************************************)
C5_EmittedIffKeyPresent ==
    Returned =>
        /\ HasChild(result.root, "description") <=> Has("description")
        /\ HasChild(result.root, "includeRegex") <=> Has("regex")
        /\ HasChild(result.root, "statusFilter") <=> Has("status-filter")

(***************************************************************************)
(* C5 as amended: each optional child is emitted exactly when its key is   *)
(* present with a value other than None, independently of what that value  *)
(* is: description carries the value as text (an empty string gives a      *)
(* description child with empty text), includeRegex carries the regex, and *)
(* statusFilter carries "true" or "false" after the boolean (false still   *)
(* gives a statusFilter child, with text "false").                         *)
(***************************************************************************)
C5_EmittedIffValueNotNone ==
    Returned =>
        /\ HasChild(result.root, "description") <=> Given("description")
        /\ Given("description") =>
               /\ ExactlyOne(result.root, "description")
               /\ OnlyChild(result.root, "description").text = data["description"]
        /\ HasChild(result.root, "includeRegex") <=> Given("regex")
        /\ Given("regex") =>
               /\ ExactlyOne(result.root, "includeRegex")
               /\ OnlyChild(result.root, "includeRegex").text = data["regex"]
        /\ HasChild(result.root, "statusFilter") <=> Given("status-filter")
        /\ Given("status-filter") =>
               /\ ExactlyOne(result.root, "statusFilter")
               /\ IsText(OnlyChild(result.root, "statusFilter"),
                         IF data["status-filter"] = PyBool(TRUE)
                         THEN "true" ELSE "false")

C5_Witness ==
    /\ Returned
    /\ Has("description") /\ data["description"] = PyStr("")
    /\ IsText(OnlyChild(result.root, "description"), "")
    /\ Has("status-filter") /\ data["status-filter"] = PyBool(FALSE)
    /\ IsText(OnlyChild(result.root, "statusFilter"), "false")
    /\ Has("regex") /\ data["regex"] = None
    /\ ~HasChild(result.root, "includeRegex")

(***************************************************************************)
(* C6: for every recognized filter type present in job-filters, its filter *)
(* element has exactly one child per triple of the type's schema, in       *)
(* schema order, with the triple's tag and the text of the block's value   *)
(* when the key is present and of the schema default otherwise.  In        *)
(* particular {most-recent: {max-to-include: 5}} gives a most-recent       *)
(* filter with maxToInclude "5" and checkStartTime "false".                *)
(***************************************************************************)
MostRecentExample == ("max-to-include" :> PyInt(5))

C6_FilterFollowsSchema ==
    Returned =>
        /\ \A f \in FilterTypes : FilterConfigured(f) => FilterFollowsSchema(f)
        /\ ( FilterConfigured("most-recent")
             /\ Block("most-recent") = MostRecentExample ) =>
               /\ Len(FilterElement("most-recent").children) = 2
               /\ FilterElement("most-recent").children[1].tag = "maxToInclude"
               /\ IsText(FilterElement("most-recent").children[1], "5")
               /\ FilterElement("most-recent").children[2].tag = "checkStartTime"
               /\ IsText(FilterElement("most-recent").children[2], "false")

C6_Witness ==
    /\ Returned
    /\ ConfiguredFilters.keys = <<"most-recent">>
    /\ Block("most-recent") = MostRecentExample
    /\ IsText(FilterElement("most-recent").children[1], "5")
    /\ IsText(FilterElement("most-recent").children[2], "false")

(***************************************************************************)
(* C7: the jobFilters child is always emitted and holds exactly one child  *)
(* for each of the four recognized filter types present in job-filters,    *)
(* and nothing else: an unknown key adds no child and raises nothing, and  *)
(* a configuration without job-filters gives an empty jobFilters shell.    *)
(***************************************************************************)
C7_JobFiltersChildren ==
    /\ Done /\ Has("name") /\ FilterConfigured("unknown-filter") =>
           result.kind = "return"
    /\ Returned =>
           /\ ExactlyOne(result.root, "jobFilters")
           /\ Len(JobFiltersElement.children) =
                  Cardinality({f \in FilterTypes : FilterConfigured(f)})
           /\ \A f \in FilterTypes :
                  IF FilterConfigured(f)
                  THEN ExactlyOne(JobFiltersElement, FilterElementTag(f))
                  ELSE ~HasChild(JobFiltersElement, FilterElementTag(f))
           /\ ~Has("job-filters") => JobFiltersElement.children = <<>>

C7_Witness ==
    /\ Returned
    /\ FilterConfigured("unknown-filter")
    /\ FilterConfigured("job-status") /\ FilterConfigured("build-trend")
    /\ Len(JobFiltersElement.children) = 2

(***************************************************************************)
(* C8: the columns child is always emitted, and its children are the       *)
(* registry tags of the recognized entries of the columns list, in list    *)
(* order with duplicates kept: an entry that is none of the 8 registry     *)
(* names leaves no element and raises nothing.                             *)
(***************************************************************************)
RegistryNames ==
    {"status", "weather", "job", "last-success", "last-failure",
     "last-duration", "build-button", "last-stable"}
ConfiguredColumns == IF Has("columns") THEN data["columns"].items ELSE <<>>
RecognizedColumns ==
    SelectSeq(ConfiguredColumns, LAMBDA c : c.s \in RegistryNames)
ColumnsElement == OnlyChild(result.root, "columns")

C8_ColumnsChildren ==
    /\ Done /\ Has("name") /\ Has("columns") => result.kind = "return"
    /\ Returned =>
           /\ ExactlyOne(result.root, "columns")
           /\ Len(ColumnsElement.children) = Len(RecognizedColumns)
           /\ \A i \in DOMAIN RecognizedColumns :
                  /\ ColumnsElement.children[i] =
                         Element(COLUMN_DICT[RecognizedColumns[i].s], NoAttrib)
                  /\ RecognizedColumns[i].s = "job" =>
                         ColumnsElement.children[i].tag = "hudson.views.JobColumn"

C8_Witness ==
    /\ Returned
    /\ Has("columns")
    /\ data["columns"].items = <<PyStr("job"), PyStr("bogus"), PyStr("job")>>
    /\ Tags(ColumnsElement) = <<"hudson.views.JobColumn", "hudson.views.JobColumn">>

(***************************************************************************)
(* C9: in every returned tree the text of filterExecutors, filterQueue,    *)
(* recurse and (when emitted) statusFilter is exactly "true" or "false":   *)
(* "true" when the configured boolean is true, "false" when it is false    *)
(* or, for the three defaulted fields, absent.                             *)
(***************************************************************************)
BooleanChild(key, tag) ==
    /\ ExactlyOne(result.root, tag)
    /\ OnlyChild(result.root, tag).text \in {PyStr("true"), PyStr("false")}
    /\ IsText(OnlyChild(result.root, tag), "true")
           <=> (Has(key) /\ data[key] = PyBool(TRUE))

C9_BooleanText ==
    Returned =>
        /\ BooleanChild("filter-executors", "filterExecutors")
        /\ BooleanChild("filter-queue", "filterQueue")
        /\ BooleanChild("recurse", "recurse")
        /\ HasChild(result.root, "statusFilter") =>
               BooleanChild("status-filter", "statusFilter")

C9_Witness ==
    /\ Returned
    /\ Has("filter-executors") /\ data["filter-executors"] = PyBool(TRUE)
    /\ IsText(OnlyChild(result.root, "filterExecutors"), "true")
    /\ ~Has("filter-queue")
    /\ IsText(OnlyChild(result.root, "filterQueue"), "false")
    /\ Has("recurse") /\ data["recurse"] = PyBool(FALSE)
    /\ IsText(OnlyChild(result.root, "recurse"), "false")
    /\ Has("status-filter") /\ data["status-filter"] = PyBool(TRUE)
    /\ IsText(OnlyChild(result.root, "statusFilter"), "true")

(***************************************************************************)
(* C10: the jobNames child is always emitted; its first child is the one   *)
(* comparator marker, followed by exactly one string child per entry of    *)
(* job-name, in list order, each holding the entry's string form; with     *)
(* job-name absent or empty, jobNames holds the comparator alone.          *)
(***************************************************************************)
ConfiguredJobNames ==
    IF Given("job-name") THEN data["job-name"].items ELSE <<>>
JobNamesElement == OnlyChild(result.root, "jobNames")
\* The string form of the entries of the input space.
ExpectedString(v) ==
    CASE v.t = "str" -> v.s
      [] v.t = "int" /\ v.n = 7 -> "7"
      [] v.t = "int" /\ v.n = 42 -> "42"

C10_JobNamesChildren ==
    Returned =>
        /\ ExactlyOne(result.root, "jobNames")
        /\ Len(JobNamesElement.children) = 1 + Len(ConfiguredJobNames)
        /\ ExactlyOne(JobNamesElement, "comparator")
        /\ JobNamesElement.children[1] =
               Element("comparator",
                   ("class" :> "hudson.util.CaseInsensitiveComparator"))
        /\ \A i \in DOMAIN ConfiguredJobNames :
               JobNamesElement.children[i + 1] =
                   WithText(Element("string", NoAttrib),
                       PyStr(ExpectedString(ConfiguredJobNames[i])))

C10_Witness ==
    /\ Returned
    /\ Given("job-name")
    /\ data["job-name"].items = <<PyInt(42), PyStr("b"), PyStr("a")>>
    /\ Tags(JobNamesElement) = <<"comparator", "string", "string", "string">>
    /\ IsText(JobNamesElement.children[2], "42")

=============================================================================
